---- MODULE Spec2Model ----
(***************************************************************************)
(* Model of internal/controller/object/informers.go: the registry of       *)
(* composed-resource informers (cdCaches), the subscriber table (sinks),   *)
(* the RWMutex guarding them, and the goroutines that act on them:         *)
(*   - WatchReferencedResources callers (under the read lock),             *)
(*   - cleanupReferencedResourceInformers (takes no lock),                 *)
(*   - Start callers and their unsubscribe goroutines (write lock),        *)
(*   - each informer's UpdateFunc (read lock during fan-out),              *)
(*   - each session's cache goroutine (defer cancelFn(); ca.Start(ctx)).   *)
(* Every access to shared state is one step; purely local work between two *)
(* shared accesses is folded into the step that follows it.                *)
(*                                                                         *)
(* Spec composes all goroutines. SpecRegistry runs the goroutines that     *)
(* touch cdCaches and the sessions (WatchReferencedResources, cleanup, the *)
(* cache goroutines); SpecBroadcast runs the ones that touch sinks (Start, *)
(* unsubscribe, UpdateFunc) over one registered session. The two halves    *)
(* share only the lock, which the registry half only ever read-locks or    *)
(* ignores, so neither half can change what the other's steps compute.     *)
(* SpecRace runs callers that all name one key, SpecDuplicate adds a       *)
(* subscriber and the informers' reports of one change to them,            *)
(* SpecUnsubscribe and SpecCalls state the scheduler's fairness for the    *)
(* subscribers and for every user of the lock.                             *)
(*                                                                         *)
(* A data race on cdCaches (a map write unordered with another access) has *)
(* two outcomes here: the write takes effect, or the runtime aborts the    *)
(* process with its concurrent-map-access fatal error (crashed).           *)
(***************************************************************************)
EXTENDS Integers, Sequences, FiniteSets, TLC

\* ------------------------------------------------------------------ bounds
MaxCalls == 1      \* WatchReferencedResources calls in one run
MaxSweeps == 1     \* cleanupReferencedResourceInformers rounds in one run
MaxSubs == 2       \* Start calls in one run
MaxEvents == 2     \* UpdateFunc invocations in one run
MaxRacing == 2     \* WatchReferencedResources calls in one run of SpecRace

\* ------------------------------------------------------------ input domains
Keys == {"A", "B"}                     \* gvkWithConfig values
Watchers == {1, 2}                     \* slots for calls of WatchReferencedResources in flight
GcsInputs == {<<"A">>, <<"A", "B">>, <<"A", "A">>}   \* the gcs ...gvkWithConfig argument
Outcomes == {"ok", "newFail", "infFail", "hdlFail"}   \* which of cache.New / GetInformer / AddEventHandler fails
RVs == {1, 2}                          \* resource versions of the objects in an update
ItemCounts == {0, 1}                   \* len(list.Items) the reference index can report
PredChains == {<<>>, <<"rej", "acc">>, <<"acc", "newer">>}   \* the ps ...predicate.Predicate argument

NoKey == "-"

VARIABLES
  lock,       \* sync.RWMutex: [w: writer holds it, r: number of readers]
  cdCaches,   \* map[gvkWithConfig]cdCache: key -> session id (its cache and cancelFn)
  sessions,   \* every session created so far: context, cache goroutine, cancelFn invocations
  sinks,      \* map[string]func(ev): subscriber id -> predicate chain of its closure
  subs,       \* every Start call so far: position, ctx.Done() state, arguments
  watchers,   \* per calling goroutine: position in WatchReferencedResources
  sweep,      \* position of cleanupReferencedResourceInformers
  fans,       \* per session: position of the informer's UpdateFunc
  counts,     \* how many calls, sweeps and events were started (bounds the run)
  crashed     \* the runtime stopped the process: fatal error on a concurrent map access

vars == <<lock, cdCaches, sessions, sinks, subs, watchers, sweep, fans, counts, crashed>>

\* ------------------------------------------------------------------ helpers
EmptyMap == [x \in {} |-> 0]

MapPut(m, k, v) == [x \in DOMAIN m \cup {k} |-> IF x = k THEN v ELSE m[x]]

MapDel(m, k) == [x \in DOMAIN m \ {k} |-> m[x]]

NoEntry == [key |-> NoKey, out |-> "none", ctx |-> "none", task |-> FALSE, sid |-> 0]

\* last: what the latest loop iteration did; failed: an earlier iteration of
\* this call hit a construction failure.
IdleWatcher == [pc |-> "idle", gcs |-> <<>>, idx |-> 0, cur |-> 0, last |-> NoEntry, failed |-> FALSE]

\* gc, inf: the loop variables of the entry chosen for removal; snap: the keys
\* present when the range started; seen: per key produced so far, what the
\* query returned, the entry's session and whether the key was deleted.
IdleSweep == [pc |-> "idle", snap |-> {}, gc |-> NoKey, inf |-> 0, seen |-> EmptyMap]

\* old, new: the resource versions UpdateFunc was called with; dl: per
\* subscriber id, the invocations of its closure in this fan-out. Taken when
\* UpdateFunc was called: regd, the subscribers whose Start had returned.
\* Taken with the read lock: snap, the ids in sinks; live, the subscribers
\* whose ctx was not done; gone, those whose entry had been deleted. seq: how
\* many times the session's informer has called UpdateFunc so far.
IdleFan == [pc |-> "idle", old |-> 0, new |-> 0, snap |-> {}, regd |-> {}, live |-> {}, gone |-> {}, dl |-> EmptyMap, seq |-> 0]

\* ------------------------------------------------------------------- Init
Init ==
  /\ lock = [w |-> FALSE, r |-> 0]
  /\ cdCaches = EmptyMap
  /\ sessions = <<>>
  /\ sinks = EmptyMap
  /\ subs = <<>>
  /\ watchers = [w \in Watchers |-> IdleWatcher]
  /\ sweep = IdleSweep
  /\ fans = <<>>
  /\ counts = [calls |-> MaxCalls, sweeps |-> MaxSweeps, subs |-> MaxSubs, events |-> MaxEvents]
  /\ crashed = FALSE

\* ------------------------------------------------- concurrent map accesses
\* A goroutine whose next step reads or writes cdCaches.
WatcherPoised(w) ==
  \/ watchers[w].pc = "insert"
  \/ watchers[w].pc = "loop" /\ watchers[w].idx <= Len(watchers[w].gcs)

SweepPoised == sweep.pc \in {"range", "delete"}

\* The write of cdCaches that watcher w is about to do is unordered with
\* another goroutine's access to the same map.
RacyInsert(w) == SweepPoised \/ \E o \in Watchers \ {w} : WatcherPoised(o)

RacyDelete == \E w \in Watchers : WatcherPoised(w)

\* The runtime detects the concurrent map access and ends the process: all
\* in-memory state is gone and, with no goroutine and no budget left, no
\* action is enabled afterwards.
Crash ==
  /\ lock' = [w |-> FALSE, r |-> 0]
  /\ cdCaches' = EmptyMap
  /\ sessions' = <<>>
  /\ sinks' = EmptyMap
  /\ subs' = <<>>
  /\ watchers' = [w \in Watchers |-> IdleWatcher]
  /\ sweep' = IdleSweep
  /\ fans' = <<>>
  /\ counts' = [calls |-> 0, sweeps |-> 0, subs |-> 0, events |-> 0]
  /\ crashed' = TRUE

\* ------------------------------------------------------- cancelFn, sessions
\* context.CancelFunc of session s, invoked by `by` ("sweep", "task").
cancelFn(ss, s, by) ==
  [ss EXCEPT ![s].ctx = "cancelled",
             ![s].cancels = @ + 1,
             ![s].sweepCancels = IF by = "sweep" THEN @ + 1 ELSE @]

\* cancelFn() is deferred in the loop body instead of in the cache goroutine:
\* the context of every session built is already cancelled
NewSessionCancelled(gc, c) ==
  [key |-> gc, ctx |-> "cancelled", task |-> IF c.task THEN "running" ELSE "none",
   cancels |-> 1, sweepCancels |-> 0, recorded |-> FALSE, synced |-> FALSE]

\* The session a loop iteration has built when it reaches the insert: c
\* says what the iteration did with the context and the cache goroutine.
\* synced: the cache has completed its initial sync.
NewSession(gc, c) ==
  [key |-> gc, ctx |-> c.ctx, task |-> IF c.task THEN "running" ELSE "none",
   cancels |-> IF c.ctx = "cancelled" THEN 1 ELSE 0, sweepCancels |-> 0, recorded |-> FALSE,
   synced |-> FALSE]

\* ----------------------------------------------- WatchReferencedResources
\* i.lock.RLock(); defer i.lock.RUnlock()
\* The calling goroutines are interchangeable: a call takes the first free
\* slot.
Watch_RLock(w, gcs) ==
  /\ watchers[w].pc = "idle"
  /\ \A o \in Watchers : o < w => watchers[o].pc # "idle"
  /\ counts.calls > 0
  /\ ~lock.w
  /\ lock' = [lock EXCEPT !.r = @ + 1]
  /\ watchers' = [watchers EXCEPT ![w] = [IdleWatcher EXCEPT !.pc = "loop", !.gcs = gcs, !.idx = 1]]
  /\ counts' = [counts EXCEPT !.calls = @ - 1]
  /\ UNCHANGED <<cdCaches, sessions, sinks, subs, sweep, fans, crashed>>

\* the presence check never finds the key: every key is treated as new
FoundNever(gc) == FALSE

\* if _, found := i.cdCaches[gc]; found
Found(gc) == gc \in DOMAIN cdCaches

\* the `continue` after the cancelFn() of a failed AddEventHandler is missing:
\* the pass goes on to start the cache goroutine and to the insert
ConstructNoContinue(o) ==
  CASE o = "newFail" -> [ctx |-> "none", task |-> FALSE, insert |-> FALSE]
    [] o = "infFail" -> [ctx |-> "cancelled", task |-> FALSE, insert |-> FALSE]
    [] o = "hdlFail" -> [ctx |-> "cancelled", task |-> TRUE, insert |-> TRUE]
    [] OTHER -> [ctx |-> "live", task |-> TRUE, insert |-> TRUE]

\* What one pass over lines 118-167 leaves behind for construction outcome o:
\* the context's state, whether the cache goroutine was started, and whether
\* the pass goes on to the insert at line 169.
Construct(o) ==
  CASE o = "newFail" -> [ctx |-> "none", task |-> FALSE, insert |-> FALSE]
    [] o = "infFail" -> [ctx |-> "cancelled", task |-> FALSE, insert |-> FALSE]
    [] o = "hdlFail" -> [ctx |-> "cancelled", task |-> FALSE, insert |-> FALSE]
    [] OTHER -> [ctx |-> "live", task |-> TRUE, insert |-> TRUE]

\* the option is left out: by default GetInformer blocks until the informer
\* has synced
BlockUntilSyncedDefault(gc) == TRUE

\* ca.GetInformer(ctx, &u, cache.BlockUntilSynced(false)): whether the call
\* waits for the initial sync of the informer of gc
BlockUntilSynced(gc) == FALSE

LogEntry(gc, o, c, s) == [key |-> gc, out |-> o, ctx |-> c.ctx, task |-> c.task, sid |-> s]

\* One loop iteration up to, and not including, the insert: the presence
\* check, then for a new key the construction of cache, context, informer and
\* handler and the start of the cache goroutine. The cache it asks for the
\* informer is not started yet, so a GetInformer that waited for the sync
\* would not return.
Watch_Check(w, o) ==
  LET me == watchers[w]
      gc == me.gcs[me.idx]
      c == Construct(o)
      sid == Len(sessions) + 1
  IN /\ me.pc = "loop"
     /\ me.idx <= Len(me.gcs)
     /\ Found(gc) \/ o = "newFail" \/ ~BlockUntilSynced(gc)
     /\ IF Found(gc)
        THEN /\ o = "ok"
             /\ watchers' = [watchers EXCEPT ![w].idx = @ + 1,
                               ![w].last = [NoEntry EXCEPT !.key = gc, !.out = "found"]]
             /\ UNCHANGED <<sessions, fans>>
        ELSE IF c.insert
        THEN /\ sessions' = Append(sessions, NewSession(gc, c))
             /\ fans' = Append(fans, IdleFan)
             /\ watchers' = [watchers EXCEPT ![w].pc = "insert", ![w].cur = sid,
                               ![w].last = LogEntry(gc, o, c, sid)]
        ELSE /\ watchers' = [watchers EXCEPT ![w].idx = @ + 1, ![w].failed = TRUE,
                               ![w].last = LogEntry(gc, o, c, 0)]
             /\ UNCHANGED <<sessions, fans>>
     /\ UNCHANGED <<lock, cdCaches, sinks, subs, sweep, counts, crashed>>

\* i.cdCaches[gc] = cdCache{cache: ca, cancelFn: cancelFn}
Watch_Insert(w) ==
  LET me == watchers[w]
      gc == me.gcs[me.idx]
  IN /\ me.pc = "insert"
     /\ cdCaches' = MapPut(cdCaches, gc, me.cur)
     /\ sessions' = [sessions EXCEPT ![me.cur].recorded = TRUE]
     /\ watchers' = [watchers EXCEPT ![w].pc = "loop", ![w].idx = @ + 1, ![w].cur = 0]
     /\ UNCHANGED <<lock, sinks, subs, sweep, fans, counts, crashed>>

\* the same map write while another goroutine is reading or writing cdCaches:
\* besides taking effect as above, the write can end in the runtime's fatal
\* error
Watch_InsertRace(w) ==
  /\ watchers[w].pc = "insert"
  /\ RacyInsert(w)
  /\ Crash

\* the loop is over: the deferred i.lock.RUnlock() runs and the call returns
Watch_Return(w) ==
  /\ watchers[w].pc = "loop"
  /\ watchers[w].idx > Len(watchers[w].gcs)
  /\ lock' = [lock EXCEPT !.r = @ - 1]
  /\ watchers' = [watchers EXCEPT ![w] = IdleWatcher]
  /\ UNCHANGED <<cdCaches, sessions, sinks, subs, sweep, fans, counts, crashed>>

WatchReferencedResources ==
  \/ \E w \in Watchers, gcs \in GcsInputs : Watch_RLock(w, gcs)
  \/ \E w \in Watchers, o \in Outcomes : Watch_Check(w, o)
  \/ \E w \in Watchers : Watch_Insert(w)
  \/ \E w \in Watchers : Watch_InsertRace(w)
  \/ \E w \in Watchers : Watch_Return(w)

\* ------------------------------------------------- the cache goroutine
\* go func() { defer cancelFn(); _ = ca.Start(ctx) }(): ca.Start returns,
\* because ctx was cancelled or on an error of its own, and the deferred
\* cancelFn runs.
CacheTaskEnd(s) ==
  /\ sessions[s].task = "running"
  /\ sessions' = [cancelFn(sessions, s, "task") EXCEPT ![s].task = "ended"]
  /\ UNCHANGED <<lock, cdCaches, sinks, subs, watchers, sweep, fans, counts, crashed>>

\* -------------------------------------- cleanupReferencedResourceInformers
\* The function takes no lock. `for gc, inf := range i.cdCaches` starts: the
\* keys present now are the ones the iteration is bound to produce.
Sweep_Begin ==
  /\ sweep.pc = "idle"
  /\ counts.sweeps > 0
  /\ sweep' = [IdleSweep EXCEPT !.pc = "range", !.snap = DOMAIN cdCaches]
  /\ counts' = [counts EXCEPT !.sweeps = @ - 1]
  /\ UNCHANGED <<lock, cdCaches, sessions, sinks, subs, watchers, fans, crashed>>

\* list := v1alpha2.ObjectList{}; err := i.objectsCache.List(ctx, &list, ...):
\* the list starts empty and a failed query leaves it empty.
List(err, n) == [err |-> err, items |-> IF err THEN 0 ELSE n]

\* `>= 0` for `> 0`: every key is kept
SkipKeyAlways(list) == list.items >= 0

\* `> 1` for `> 0`: a key with one referencing object is removed
SkipKeyOffByOne(list) == list.items > 1

\* if len(list.Items) > 0 { continue }
SkipKey(list) == list.items > 0

\* The iteration produces the entry (gc, inf), the reference index is queried
\* (the error, if any, is only logged) and the entry is kept or chosen for
\* removal.
Sweep_Visit(gc, err, n) ==
  LET list == List(err, n)
      inf == cdCaches[gc]
      skip == SkipKey(list)
  IN /\ sweep.pc = "range"
     /\ gc \in DOMAIN cdCaches \ DOMAIN sweep.seen
     /\ err => n = 0
     /\ sweep' = [sweep EXCEPT
                    !.pc = IF skip THEN "range" ELSE "cancel",
                    !.gc = IF skip THEN NoKey ELSE gc,
                    !.inf = IF skip THEN 0 ELSE inf,
                    !.seen = MapPut(@, gc, [err |-> list.err, items |-> list.items, inf |-> inf, deleted |-> FALSE])]
     /\ UNCHANGED <<lock, cdCaches, sessions, sinks, subs, watchers, fans, counts, crashed>>

\* inf.cancelFn()
Sweep_Cancel ==
  /\ sweep.pc = "cancel"
  /\ sessions' = cancelFn(sessions, sweep.inf, "sweep")
  /\ sweep' = [sweep EXCEPT !.pc = "delete"]
  /\ UNCHANGED <<lock, cdCaches, sinks, subs, watchers, fans, counts, crashed>>

\* delete(i.cdCaches, gc)
Sweep_Delete ==
  /\ sweep.pc = "delete"
  /\ cdCaches' = MapDel(cdCaches, sweep.gc)
  /\ sweep' = [sweep EXCEPT !.pc = "range", !.gc = NoKey, !.inf = 0,
                            !.seen[sweep.gc].deleted = TRUE]
  /\ UNCHANGED <<lock, sessions, sinks, subs, watchers, fans, counts, crashed>>

\* the same map write while a WatchReferencedResources call is reading or
\* writing cdCaches: it can end in the runtime's fatal error
Sweep_DeleteRace ==
  /\ sweep.pc = "delete"
  /\ RacyDelete
  /\ Crash

\* The iteration is over once every entry it was bound to produce was
\* produced or deleted; an entry inserted meanwhile may have been skipped.
Sweep_End ==
  /\ sweep.pc = "range"
  /\ (sweep.snap \cap DOMAIN cdCaches) \subseteq DOMAIN sweep.seen
  /\ sweep' = IdleSweep
  /\ UNCHANGED <<lock, cdCaches, sessions, sinks, subs, watchers, fans, counts, crashed>>

cleanupReferencedResourceInformers ==
  \/ Sweep_Begin
  \/ \E gc \in Keys, err \in BOOLEAN, n \in ItemCounts : Sweep_Visit(gc, err, n)
  \/ Sweep_Cancel
  \/ Sweep_Delete
  \/ Sweep_DeleteRace
  \/ Sweep_End

\* ------------------------------------------------------------------ Start
\* id := uuid.New().String(); i.lock.Lock(); defer i.lock.Unlock()
\* d: whether ctx is already done when Start is called. got: per session, the
\* seq of the latest notification the subscriber's closure was invoked with.
Start_Lock(ps, d) ==
  /\ counts.subs > 0
  /\ counts' = [counts EXCEPT !.subs = @ - 1]
  /\ ~lock.w /\ lock.r = 0
  /\ lock' = [lock EXCEPT !.w = TRUE]
  /\ subs' = Append(subs, [pc |-> "locked", done |-> d, ps |-> ps, got |-> EmptyMap])
  /\ UNCHANGED <<cdCaches, sessions, sinks, watchers, sweep, fans, crashed>>

\* i.sinks[id] = func(ev) {...}; go func() {...}(); return nil (Unlock)
Start_Insert(id) ==
  /\ subs[id].pc = "locked"
  /\ sinks' = MapPut(sinks, id, subs[id].ps)
  /\ subs' = [subs EXCEPT ![id].pc = "active", ![id].ps = <<>>]
  /\ lock' = [lock EXCEPT !.w = FALSE]
  /\ UNCHANGED <<cdCaches, sessions, watchers, sweep, fans, counts, crashed>>

\* the caller's context ends
Ctx_Done(id) ==
  /\ ~subs[id].done
  /\ subs' = [subs EXCEPT ![id].done = TRUE]
  /\ UNCHANGED <<lock, cdCaches, sessions, sinks, watchers, sweep, fans, counts, crashed>>

\* the unsubscribe goroutine does not wait for ctx.Done()
CtxIsDoneAlways(id) == TRUE

\* the unsubscribe goroutine waits on a context that is never done
CtxIsDoneNever(id) == FALSE

\* <-ctx.Done()
CtxIsDone(id) == subs[id].done

\* the unsubscribe goroutine: <-ctx.Done(); i.lock.Lock()
Unsub_Lock(id) ==
  /\ subs[id].pc = "active"
  /\ CtxIsDone(id)
  /\ ~lock.w /\ lock.r = 0
  /\ lock' = [lock EXCEPT !.w = TRUE]
  /\ subs' = [subs EXCEPT ![id].pc = "unsub"]
  /\ UNCHANGED <<cdCaches, sessions, sinks, watchers, sweep, fans, counts, crashed>>

\* the delete names a key that is not in the map
SinksDeleteNothing(id) == sinks

\* the table is replaced by an empty one instead of one entry being deleted
SinksDeleteAll(id) == EmptyMap

\* delete(i.sinks, id)
SinksDelete(id) == MapDel(sinks, id)

\* delete(i.sinks, id); the deferred Unlock
Unsub_Delete(id) ==
  /\ subs[id].pc = "unsub"
  /\ sinks' = SinksDelete(id)
  /\ subs' = [subs EXCEPT ![id].pc = "gone"]
  /\ lock' = [lock EXCEPT !.w = FALSE]
  /\ UNCHANGED <<cdCaches, sessions, watchers, sweep, fans, counts, crashed>>

Start ==
  \/ \E ps \in PredChains, d \in BOOLEAN : Start_Lock(ps, d)
  \/ \E id \in DOMAIN subs : Start_Insert(id)
  \/ \E id \in DOMAIN subs : Ctx_Done(id)
  \/ \E id \in DOMAIN subs : Unsub_Lock(id)
  \/ \E id \in DOMAIN subs : Unsub_Delete(id)

\* ------------------------------------------------- the closure in sinks
\* p.Update(ev) of the predicate kinds the model draws from
PredUpdate(p, ev) ==
  CASE p = "acc" -> TRUE
    [] p = "rej" -> FALSE
    [] OTHER -> ev.new > ev.old

\* for _, p := range ps { if !p.Update(ev) { return } }: the predicates
\* evaluated from position i on, in order, and whether all accepted.
RECURSIVE ApplyPredicates(_, _, _)
ApplyPredicates(ps, ev, i) ==
  IF i > Len(ps) THEN [evald |-> <<>>, pass |-> TRUE]
  ELSE IF ~PredUpdate(ps[i], ev) THEN [evald |-> <<i>>, pass |-> FALSE]
  ELSE LET r == ApplyPredicates(ps, ev, i + 1)
       IN [evald |-> <<i>> \o r.evald, pass |-> r.pass]

\* the closure without the early return: every predicate is evaluated, the
\* handler is called if all accepted
handleFnNoShortCircuit(ps, ev) ==
  [evald |-> [i \in 1..Len(ps) |-> i],
   handled |-> IF \A i \in DOMAIN ps : PredUpdate(ps[i], ev) THEN 1 ELSE 0]

\* one invocation of the closure stored in sinks: the predicates it
\* evaluated and how often it called h.Update(ctx, ev, q)
handleFn(ps, ev) ==
  LET r == ApplyPredicates(ps, ev, 1)
  IN [evald |-> r.evald, handled |-> IF r.pass THEN 1 ELSE 0]

\* ------------------------------------------------------------- UpdateFunc
\* the comparison inverted
SameResourceVersionInverted(old, new) == old # new

\* old.GetResourceVersion() == obj.GetResourceVersion()
SameResourceVersion(old, new) == old = new

\* The informer of session s calls UpdateFunc(oldObj, newObj); an update
\* with equal resource versions returns at once (the record keeps the pair it
\* was called with).
Update_Call(s, old, new) ==
  /\ fans[s].pc = "idle"
  /\ sessions[s].task = "running"
  /\ counts.events > 0
  /\ counts' = [counts EXCEPT !.events = @ - 1]
  /\ IF SameResourceVersion(old, new)
     THEN fans' = [fans EXCEPT ![s] = [IdleFan EXCEPT !.old = old, !.new = new, !.seq = fans[s].seq + 1]]
     ELSE fans' = [fans EXCEPT ![s] = [IdleFan EXCEPT !.pc = "rlock", !.old = old, !.new = new,
                     !.seq = fans[s].seq + 1,
                     !.regd = {id \in DOMAIN subs : subs[id].pc \in {"active", "unsub", "gone"}}]]
  /\ UNCHANGED <<lock, cdCaches, sessions, sinks, subs, watchers, sweep, crashed>>

\* i.lock.RLock(); defer i.lock.RUnlock(); ev := UpdateEvent{old, obj}
Update_RLock(s) ==
  /\ fans[s].pc = "rlock"
  /\ ~lock.w
  /\ lock' = [lock EXCEPT !.r = @ + 1]
  /\ fans' = [fans EXCEPT ![s].pc = "fanout",
                          ![s].snap = DOMAIN sinks,
                          ![s].live = {id \in DOMAIN subs : ~subs[id].done},
                          ![s].gone = {id \in DOMAIN subs : subs[id].pc = "gone"}]
  /\ UNCHANGED <<cdCaches, sessions, sinks, subs, watchers, sweep, counts, crashed>>

\* the range loop leaves after the first closure
SinksLeftBreak(s) == IF DOMAIN fans[s].dl = {} THEN DOMAIN sinks ELSE {}

\* the range loop does not advance: it produces entries it produced already
SinksLeftAgain(s) == DOMAIN sinks

\* for _, handleFn := range i.sinks: the entries the iteration has yet to produce
SinksLeft(s) == DOMAIN sinks \ DOMAIN fans[s].dl

\* handleFn(ev) for one entry of sinks
Update_Deliver(s, id) ==
  LET ev == [old |-> fans[s].old, new |-> fans[s].new]
      r == handleFn(sinks[id], ev)
      n == IF id \in DOMAIN fans[s].dl THEN fans[s].dl[id].n ELSE 0
  IN /\ fans[s].pc = "fanout"
     /\ id \in SinksLeft(s)
     /\ fans' = [fans EXCEPT ![s].dl = MapPut(@, id, [n |-> n + 1, ev |-> ev, evald |-> r.evald, handled |-> r.handled])]
     /\ subs' = [subs EXCEPT ![id].got = MapPut(@, s, fans[s].seq)]
     /\ UNCHANGED <<lock, cdCaches, sessions, sinks, watchers, sweep, counts, crashed>>

\* the range is over: the deferred i.lock.RUnlock() runs
Update_RUnlock(s) ==
  /\ fans[s].pc = "fanout"
  /\ SinksLeft(s) = {}
  /\ lock' = [lock EXCEPT !.r = @ - 1]
  /\ fans' = [fans EXCEPT ![s] = [IdleFan EXCEPT !.seq = fans[s].seq]]
  /\ UNCHANGED <<cdCaches, sessions, sinks, subs, watchers, sweep, counts, crashed>>

UpdateFunc ==
  \/ \E s \in DOMAIN sessions, old \in RVs, new \in RVs : Update_Call(s, old, new)
  \/ \E s \in DOMAIN sessions : Update_RLock(s)
  \/ \E s \in DOMAIN sessions, id \in DOMAIN sinks : Update_Deliver(s, id)
  \/ \E s \in DOMAIN sessions : Update_RUnlock(s)

CacheTask == \E s \in DOMAIN sessions : CacheTaskEnd(s)

\* go func() { if synced := ca.WaitForCacheSync(ctx); synced {...} }(): the
\* running cache completes its initial sync, which the goroutine only logs.
WaitForCacheSync(s) ==
  /\ sessions[s].task = "running"
  /\ sessions[s].ctx = "live"
  /\ ~sessions[s].synced
  /\ sessions' = [sessions EXCEPT ![s].synced = TRUE]
  /\ UNCHANGED <<lock, cdCaches, sinks, subs, watchers, sweep, fans, counts, crashed>>

CacheSync == \E s \in DOMAIN sessions : WaitForCacheSync(s)

\* ------------------------------------------------------------------ Spec
Next ==
  \/ WatchReferencedResources
  \/ cleanupReferencedResourceInformers
  \/ Start
  \/ UpdateFunc
  \/ CacheTask
  \/ CacheSync

Spec == Init /\ [][Next]_vars

\* The registry half alone: the goroutines that touch cdCaches and sessions.
InitRegistry ==
  /\ lock = [w |-> FALSE, r |-> 0]
  /\ cdCaches = EmptyMap
  /\ sessions = <<>>
  /\ sinks = EmptyMap
  /\ subs = <<>>
  /\ watchers = [w \in Watchers |-> IdleWatcher]
  /\ sweep = IdleSweep
  /\ fans = <<>>
  /\ counts = [calls |-> MaxCalls, sweeps |-> MaxSweeps, subs |-> 0, events |-> 0]
  /\ crashed = FALSE

NextRegistry ==
  \/ WatchReferencedResources
  \/ cleanupReferencedResourceInformers
  \/ CacheTask

SpecRegistry == InitRegistry /\ [][NextRegistry]_vars

\* The broadcast half alone: the goroutines that touch sinks, started from
\* the state in which one call WatchReferencedResources(nil, A) has returned
\* with the construction succeeding.
Watching(gc) == [NewSession(gc, Construct("ok")) EXCEPT !.recorded = TRUE]

InitBroadcast ==
  /\ lock = [w |-> FALSE, r |-> 0]
  /\ cdCaches = [gc \in {"A"} |-> 1]
  /\ sessions = <<Watching("A")>>
  /\ sinks = EmptyMap
  /\ subs = <<>>
  /\ watchers = [w \in Watchers |-> IdleWatcher]
  /\ sweep = IdleSweep
  /\ fans = <<IdleFan>>
  /\ counts = [calls |-> 0, sweeps |-> 0, subs |-> MaxSubs, events |-> MaxEvents]
  /\ crashed = FALSE

NextBroadcast ==
  \/ Start
  \/ UpdateFunc

SpecBroadcast == InitBroadcast /\ [][NextBroadcast]_vars

\* The broadcast half under the scheduling the runtime gives it: a goroutine
\* that can take its next step does take it, and a goroutine waiting in
\* Lock() or RLock() gets the lock once it is free often enough. Nothing makes
\* a caller's context end, a Start call happen or an informer emit.
FairBroadcast ==
  /\ \A id \in 1..MaxSubs :
       /\ WF_vars(id \in DOMAIN subs /\ Start_Insert(id))
       /\ SF_vars(id \in DOMAIN subs /\ Unsub_Lock(id))
       /\ WF_vars(id \in DOMAIN subs /\ Unsub_Delete(id))
  /\ SF_vars(\E s \in DOMAIN sessions : Update_RLock(s))
  /\ WF_vars(\E s \in DOMAIN sessions, id \in DOMAIN sinks : Update_Deliver(s, id))
  /\ WF_vars(\E s \in DOMAIN sessions : Update_RUnlock(s))

\* Subscribers that come and go beside the fan-out of one kind of change:
\* Start is called without predicates, with a context that is done already
\* or ends later, and the informer reports changes from version 1 to 2.
NextUnsubscribe ==
  \/ \E d \in BOOLEAN : Start_Lock(<<>>, d)
  \/ \E id \in DOMAIN subs : Start_Insert(id)
  \/ \E id \in DOMAIN subs : Ctx_Done(id)
  \/ \E id \in DOMAIN subs : Unsub_Lock(id)
  \/ \E id \in DOMAIN subs : Unsub_Delete(id)
  \/ \E s \in DOMAIN sessions : Update_Call(s, 1, 2)
  \/ \E s \in DOMAIN sessions : Update_RLock(s)
  \/ \E s \in DOMAIN sessions, id \in DOMAIN sinks : Update_Deliver(s, id)
  \/ \E s \in DOMAIN sessions : Update_RUnlock(s)

SpecUnsubscribe == InitBroadcast /\ [][NextUnsubscribe]_vars /\ FairBroadcast

\* Callers that all name the same key: WatchReferencedResources(nil, A)
\* called MaxRacing times, the calls overlapping or following one another,
\* beside cleanup and the cache goroutines.
InitRace ==
  /\ lock = [w |-> FALSE, r |-> 0]
  /\ cdCaches = EmptyMap
  /\ sessions = <<>>
  /\ sinks = EmptyMap
  /\ subs = <<>>
  /\ watchers = [w \in Watchers |-> IdleWatcher]
  /\ sweep = IdleSweep
  /\ fans = <<>>
  /\ counts = [calls |-> MaxRacing, sweeps |-> MaxSweeps, subs |-> 0, events |-> 0]
  /\ crashed = FALSE

NextRace ==
  \/ \E w \in Watchers : Watch_RLock(w, <<"A">>)
  \/ \E w \in Watchers, o \in Outcomes : Watch_Check(w, o)
  \/ \E w \in Watchers : Watch_Insert(w)
  \/ \E w \in Watchers : Watch_InsertRace(w)
  \/ \E w \in Watchers : Watch_Return(w)
  \/ cleanupReferencedResourceInformers
  \/ CacheTask

SpecRace == InitRace /\ [][NextRace]_vars

\* The same-key callers of SpecRace together with subscribers and the
\* informers' notifications: one object of key A changes once, from version 1
\* to 2, and every informer that watches A reports that change once.
InitDuplicate ==
  /\ lock = [w |-> FALSE, r |-> 0]
  /\ cdCaches = EmptyMap
  /\ sessions = <<>>
  /\ sinks = EmptyMap
  /\ subs = <<>>
  /\ watchers = [w \in Watchers |-> IdleWatcher]
  /\ sweep = IdleSweep
  /\ fans = <<>>
  /\ counts = [calls |-> MaxRacing, sweeps |-> MaxSweeps, subs |-> 1, events |-> MaxRacing]
  /\ crashed = FALSE

NextDuplicate ==
  \/ NextRace
  \/ \E d \in BOOLEAN : Start_Lock(<<>>, d)
  \/ \E id \in DOMAIN subs : Start_Insert(id)
  \/ \E id \in DOMAIN subs : Ctx_Done(id)
  \/ \E id \in DOMAIN subs : Unsub_Lock(id)
  \/ \E id \in DOMAIN subs : Unsub_Delete(id)
  \/ \E s \in DOMAIN sessions : fans[s].seq = 0 /\ Update_Call(s, 1, 2)
  \/ \E s \in DOMAIN sessions : Update_RLock(s)
  \/ \E s \in DOMAIN sessions, id \in DOMAIN sinks : Update_Deliver(s, id)
  \/ \E s \in DOMAIN sessions : Update_RUnlock(s)

SpecDuplicate == InitDuplicate /\ [][NextDuplicate]_vars

\* The users of the lock beside one cleanup round: one call
\* WatchReferencedResources(nil, A, A), two Start calls without predicates
\* with their unsubscribe goroutines, one change reported by an informer, and
\* the caches' initial syncs. The cache goroutines keep running.
InitCalls ==
  /\ lock = [w |-> FALSE, r |-> 0]
  /\ cdCaches = EmptyMap
  /\ sessions = <<>>
  /\ sinks = EmptyMap
  /\ subs = <<>>
  /\ watchers = [w \in Watchers |-> IdleWatcher]
  /\ sweep = IdleSweep
  /\ fans = <<>>
  /\ counts = [calls |-> 1, sweeps |-> 1, subs |-> 2, events |-> 1]
  /\ crashed = FALSE

NextCalls ==
  \/ \E w \in Watchers : Watch_RLock(w, <<"A", "A">>)
  \/ \E w \in Watchers, o \in Outcomes : Watch_Check(w, o)
  \/ \E w \in Watchers : Watch_Insert(w)
  \/ \E w \in Watchers : Watch_InsertRace(w)
  \/ \E w \in Watchers : Watch_Return(w)
  \/ cleanupReferencedResourceInformers
  \/ CacheSync
  \/ \E d \in BOOLEAN : Start_Lock(<<>>, d)
  \/ \E id \in DOMAIN subs : Start_Insert(id)
  \/ \E id \in DOMAIN subs : Ctx_Done(id)
  \/ \E id \in DOMAIN subs : Unsub_Lock(id)
  \/ \E id \in DOMAIN subs : Unsub_Delete(id)
  \/ \E s \in DOMAIN sessions : Update_Call(s, 1, 2)
  \/ \E s \in DOMAIN sessions : Update_RLock(s)
  \/ \E s \in DOMAIN sessions, id \in DOMAIN sinks : Update_Deliver(s, id)
  \/ \E s \in DOMAIN sessions : Update_RUnlock(s)

\* Every goroutine that holds the lock, or waits for it, takes its next
\* step when it can. Nothing makes a cache sync, a cache goroutine end, a
\* cleanup round run or a new call arrive.
FairCalls ==
  /\ FairBroadcast
  /\ \A w \in Watchers :
       /\ WF_vars(\E o \in Outcomes : Watch_Check(w, o))
       /\ WF_vars(Watch_Insert(w))
       /\ WF_vars(Watch_Return(w))

SpecCalls == InitCalls /\ [][NextCalls]_vars /\ FairCalls

\* ================================================================ claims
Failures == {"newFail", "infFail", "hdlFail"}

\* The step watcher w takes next is the presence check of a key that is in
\* cdCaches.
AtPresentKey(w) ==
  /\ watchers[w].pc = "loop"
  /\ watchers[w].idx <= Len(watchers[w].gcs)
  /\ watchers[w].gcs[watchers[w].idx] \in DOMAIN cdCaches

\* C1: when WatchReferencedResources reaches a key that is present in
\* cdCaches, its step for that key creates no session (no cache, context or
\* cache goroutine), leaves cdCaches and every session as they were, and moves
\* on to the next key.
C1_PresentKeySkipped ==
  [][\A w \in Watchers :
       (AtPresentKey(w) /\ watchers'[w] # watchers[w] /\ ~crashed')
         => /\ cdCaches' = cdCaches
            /\ sessions' = sessions
            /\ fans' = fans
            /\ watchers'[w].pc = "loop"
            /\ watchers'[w].idx = watchers[w].idx + 1
            /\ watchers'[w].cur = 0]_vars

\* a call has skipped a key it found present, with its session still there
C1_Witness ==
  \E w \in Watchers :
    /\ watchers[w].last.out = "found"
    /\ watchers[w].last.key \in DOMAIN cdCaches
    /\ Len(sessions) = 1

\* The reference index reported zero referencing objects for key k in the
\* running sweep.
ReportedZero(k) == ~sweep.seen[k].err /\ sweep.seen[k].items = 0

\* C2 as stated: when Sweep returns, every key it found with zero
\* referencing objects is absent and its session's cancelFn has been invoked
\* exactly once, all invocations counted.
C2_Original ==
  [][(sweep.pc = "range" /\ sweep'.pc = "idle" /\ ~crashed')
       => \A k \in DOMAIN sweep.seen :
            ReportedZero(k)
              => /\ k \notin DOMAIN cdCaches'
                 /\ sessions'[sweep.seen[k].inf].cancels = 1]_vars

\* C2 amended: a key for which the reference index reports zero referencing
\* objects is never skipped by Sweep; once Sweep has deleted its entry, the
\* key no longer maps to that session, the session's context is cancelled,
\* Sweep has invoked its cancelFn exactly once, and over the session's whole
\* life cancelFn was invoked once or twice (the second time by the cache
\* goroutine's deferred call).
C2_SweptSessionCancelledOnceBySweep ==
  \A k \in DOMAIN sweep.seen :
    ReportedZero(k)
      => LET e == sweep.seen[k]
         IN /\ ~e.deleted => (sweep.pc \in {"cancel", "delete"} /\ sweep.gc = k /\ sweep.inf = e.inf)
            /\ e.deleted
                 => /\ k \in DOMAIN cdCaches => cdCaches[k] # e.inf
                    /\ sessions[e.inf].ctx = "cancelled"
                    /\ sessions[e.inf].sweepCancels = 1
                    /\ sessions[e.inf].cancels \in {1, 2}

\* Sweep removed a key reported unreferenced and the session's cancelFn has
\* by then run twice: once in Sweep, once deferred in the cache goroutine
C2_Witness ==
  \E k \in DOMAIN sweep.seen :
    /\ ReportedZero(k)
    /\ sweep.seen[k].deleted
    /\ k \notin DOMAIN cdCaches
    /\ sessions[sweep.seen[k].inf].cancels = 2

\* C3 as stated: a key whose reference-index query failed is skipped for this
\* round: Sweep neither chooses it for removal, nor cancels its session, nor
\* deletes it.
C3_QueryFailureSkipsKey ==
  \A k \in DOMAIN sweep.seen :
    sweep.seen[k].err
      => /\ ~sweep.seen[k].deleted
         /\ sweep.gc # k
         /\ sessions[sweep.seen[k].inf].sweepCancels = 0

\* C4: a key for which the reference index reports at least one referencing
\* object is not chosen for removal: Sweep never invokes its session's
\* cancelFn, never deletes the key, and every step of Sweep leaves the key's
\* entry (cache and cancelFn) and its session as they were.
C4_ReferencedKeyUntouched ==
  /\ [](\A k \in DOMAIN sweep.seen :
          sweep.seen[k].items > 0
            => /\ ~sweep.seen[k].deleted
               /\ sweep.gc # k
               /\ k \in DOMAIN cdCaches
               /\ sessions[sweep.seen[k].inf].sweepCancels = 0)
  /\ [][\A k \in DOMAIN sweep'.seen :
          (sweep'.seen[k].items > 0 /\ sweep' # sweep)
            => /\ k \in DOMAIN cdCaches /\ k \in DOMAIN cdCaches'
               /\ cdCaches'[k] = cdCaches[k]
               /\ sessions'[sweep'.seen[k].inf] = sessions[sweep'.seen[k].inf]]_vars

\* Sweep has visited a referenced key, removed another one, and the
\* referenced key still maps to the session it had
C4_Witness ==
  \E k \in DOMAIN sweep.seen, j \in DOMAIN sweep.seen :
    /\ sweep.seen[k].items > 0
    /\ sweep.seen[j].deleted
    /\ k \in DOMAIN cdCaches
    /\ cdCaches[k] = sweep.seen[k].inf
    /\ sessions[sweep.seen[k].inf].cancels = 0

\* C10: in one call, an iteration whose construction fails records nothing
\* (no session, no insert pending), leaves no live context (none was created,
\* or the one created is cancelled) and starts no cache goroutine, and the
\* call goes on: an iteration whose construction succeeds, also after an
\* earlier failure, has a live context and a started cache goroutine and is
\* recorded in cdCaches by the insert that follows.
C10_FailureIsolated ==
  \A w \in Watchers :
    LET me == watchers[w]
        e == me.last
    IN /\ e.out \in Failures
         => /\ e.sid = 0 /\ me.cur = 0 /\ me.pc = "loop"
            /\ ~e.task
            /\ e.ctx = (IF e.out = "newFail" THEN "none" ELSE "cancelled")
            /\ me.failed
       /\ e.out = "ok"
         => /\ e.sid \in DOMAIN sessions
            /\ sessions[e.sid].key = e.key
            /\ sessions[e.sid].task # "none"
            /\ sessions[e.sid].cancels > 0 => sessions[e.sid].task = "ended" \/ sessions[e.sid].sweepCancels > 0
            /\ \/ me.pc = "insert" /\ me.cur = e.sid
               \/ sessions[e.sid].recorded
       /\ \A s \in DOMAIN sessions : sessions[s].task # "none"

\* a call in which one key's construction failed (after its context was
\* created) and a later key was recorded with a running cache goroutine
C10_Witness ==
  \E w \in Watchers :
    /\ watchers[w].failed
    /\ watchers[w].last.out = "ok"
    /\ watchers[w].pc = "loop"
    /\ sessions[watchers[w].last.sid].recorded
    /\ sessions[watchers[w].last.sid].task = "running"
    /\ watchers[w].last.key \in DOMAIN cdCaches
    /\ Len(sessions) = 1

\* The fan-out of session s has produced every entry of sinks: the range
\* loop is over and only the deferred RUnlock is left.
FanOutDone(s) == fans[s].pc = "fanout" /\ SinksLeft(s) = {}

\* C5: during the fan-out of an update with differing resource versions the
\* subscriber table stays the one found when the read lock was taken, each
\* closure invoked so far was invoked once, with that (old, new) pair, and
\* when the range loop is over every closure of that table has been invoked:
\* exactly once each.
C5_FanOutReachesEverySink ==
  \A s \in DOMAIN fans :
    (fans[s].pc = "fanout" /\ fans[s].old # fans[s].new)
      => /\ DOMAIN sinks = fans[s].snap
         /\ DOMAIN fans[s].dl \subseteq fans[s].snap
         /\ \A id \in DOMAIN fans[s].dl :
              /\ fans[s].dl[id].n = 1
              /\ fans[s].dl[id].ev = [old |-> fans[s].old, new |-> fans[s].new]
         /\ FanOutDone(s) => DOMAIN fans[s].dl = fans[s].snap

\* a fan-out over two registered subscribers is complete
C5_Witness ==
  \E s \in DOMAIN fans :
    /\ FanOutDone(s)
    /\ Cardinality(fans[s].snap) = 2
    /\ \A id \in fans[s].snap : id \in DOMAIN fans[s].dl /\ fans[s].dl[id].n = 1

\* C6: an update whose old and new objects have the same resource version
\* never gets as far as the lock or a closure: its UpdateFunc is back at rest
\* with nothing delivered, and the step that handled it left cdCaches, sinks,
\* the sessions and the lock as they were.
C6_SameVersionDropped ==
  /\ [](\A s \in DOMAIN fans :
          fans[s].old = fans[s].new => (fans[s].pc = "idle" /\ fans[s].dl = EmptyMap))
  /\ [][\A s \in DOMAIN fans :
          (s \in DOMAIN fans' /\ counts'.events # counts.events
             /\ fans'[s].old = fans'[s].new /\ fans'[s].old # 0)
            => /\ sinks' = sinks
               /\ cdCaches' = cdCaches
               /\ sessions' = sessions
               /\ lock' = lock]_vars

\* an update with equal resource versions arrived while a subscriber was
\* registered, and was dropped
C6_Witness ==
  \E s \in DOMAIN fans :
    /\ fans[s].old = fans[s].new
    /\ fans[s].old # 0
    /\ DOMAIN sinks # {}

\* C7: a fan-out that is complete has invoked the closure of every subscriber
\* whose Start had returned before UpdateFunc was called and whose context
\* was not yet done when the fan-out took the read lock; this holds for each
\* notification, the first after the registration and every later one.
C7_RegisteredSubscriberReceives ==
  \A s \in DOMAIN fans :
    FanOutDone(s)
      => \A id \in fans[s].regd \cap fans[s].live :
           id \in DOMAIN fans[s].dl /\ fans[s].dl[id].n >= 1

\* the second notification after a subscriber registered has been delivered
\* to it, its context still not done
C7_Witness ==
  \E s \in DOMAIN fans :
    /\ FanOutDone(s)
    /\ counts.events = 0
    /\ \E id \in fans[s].regd \cap fans[s].live :
         /\ ~subs[id].done
         /\ id \in DOMAIN fans[s].dl

\* C8: a fan-out invokes no closure of a subscriber whose entry had been
\* removed (delete done, write lock released) when the fan-out took the read
\* lock; a removed entry is not in sinks again.
C8_RemovedSubscriberNotInvoked ==
  /\ \A s \in DOMAIN fans :
       fans[s].pc = "fanout" => DOMAIN fans[s].dl \cap fans[s].gone = {}
  /\ \A id \in DOMAIN subs : subs[id].pc = "gone" => id \notin DOMAIN sinks

\* a fan-out that started after one subscriber's entry was removed is
\* complete and has delivered to the other subscriber only
C8_Witness ==
  \E s \in DOMAIN fans :
    /\ FanOutDone(s)
    /\ fans[s].gone # {}
    /\ DOMAIN fans[s].dl # {}

\* Every predicate of the chain ps accepts ev.
AllAccept(ps, ev) == \A i \in DOMAIN ps : PredUpdate(ps[i], ev)

\* C9: one invocation of a subscriber's closure evaluates the predicates
\* 1, 2, ..., k in that order, every one before the k-th accepts, and it stops
\* before the end of the chain only at a predicate that rejects; it calls the
\* handler once if every predicate of the chain accepts and not at all
\* otherwise.
C9_PredicatesShortCircuit ==
  \A s \in DOMAIN fans :
    \A id \in DOMAIN fans[s].dl :
      LET d == fans[s].dl[id]
          ps == sinks[id]
          k == Len(d.evald)
      IN /\ k <= Len(ps)
         /\ \A i \in 1..k : d.evald[i] = i
         /\ \A i \in 1..(k - 1) : PredUpdate(ps[i], d.ev)
         /\ k < Len(ps) => ~PredUpdate(ps[k], d.ev)
         /\ d.handled = (IF AllAccept(ps, d.ev) THEN 1 ELSE 0)

\* one notification reached a subscriber whose first predicate rejects (its
\* second predicate was not evaluated, its handler not called) and a
\* subscriber whose predicates all accept (handler called once)
C9_Witness ==
  \E s \in DOMAIN fans :
    \E a \in DOMAIN fans[s].dl, b \in DOMAIN fans[s].dl :
      /\ sinks[a] = <<"rej", "acc">>
      /\ fans[s].dl[a].evald = <<1>>
      /\ fans[s].dl[a].handled = 0
      /\ sinks[b] = <<"acc", "newer">>
      /\ fans[s].dl[b].evald = <<1, 2>>
      /\ fans[s].dl[b].handled = 1

\* C11 as stated: whenever Sweep is not between the cancelFn() and the delete
\* of a key, every key present in cdCaches maps to a session whose context is
\* not cancelled and whose cache goroutine is still running.
C11_PresentKeyHasLiveSession ==
  sweep.pc \notin {"cancel", "delete"}
    => \A k \in DOMAIN cdCaches :
         /\ sessions[cdCaches[k]].ctx = "live"
         /\ sessions[cdCaches[k]].task = "running"

\* C13 as stated: every step that changes cdCaches (the insert of
\* WatchReferencedResources, the delete of cleanup) and every step that
\* changes sinks (the insert of Start, the delete of the unsubscribe
\* goroutine) is taken while the write lock is held.
C13_MutationsHoldWriteLock ==
  [][/\ (cdCaches' # cdCaches /\ ~crashed') => lock.w
     /\ (sinks' # sinks /\ ~crashed') => lock.w]_vars

\* C14 as stated, for the cancellations done by cleanup: the presence check
\* of WatchReferencedResources never finds, and so never skips, a key whose
\* session's cancelFn cleanup has already invoked.
C14_PresenceCheckNeverFindsCancelled ==
  [][\A w \in Watchers :
       (AtPresentKey(w) /\ watchers'[w] # watchers[w] /\ ~crashed')
         => sessions[cdCaches[watchers[w].gcs[watchers[w].idx]]].sweepCancels = 0]_vars

\* The cache goroutine of session s was started and its context is not
\* cancelled.
LiveTask(s) == sessions[s].task = "running" /\ sessions[s].ctx = "live"

\* C15 as stated, read in the states where every WatchReferencedResources
\* call has returned and no cleanup round is running: each key has at most one
\* started cache goroutine whose context is not cancelled, and every such
\* goroutine belongs to the session whose cancelFn cdCaches holds under that
\* key.
C15_OneLiveTaskPerKey ==
  ((\A w \in Watchers : watchers[w].pc = "idle") /\ sweep.pc = "idle")
    => /\ \A s \in DOMAIN sessions, t \in DOMAIN sessions :
            (LiveTask(s) /\ LiveTask(t) /\ sessions[s].key = sessions[t].key) => s = t
       /\ \A s \in DOMAIN sessions :
            LiveTask(s) => /\ sessions[s].key \in DOMAIN cdCaches
                           /\ cdCaches[sessions[s].key] = s

C17_DeliveredInEmissionOrder ==
  /\ [](\A id \in DOMAIN subs : \A s \in DOMAIN subs[id].got :
          subs[id].got[s] <= fans[s].seq)
  /\ [][\A id \in DOMAIN subs : \A s \in DOMAIN fans :
          (id \in DOMAIN subs' /\ s \in DOMAIN fans' /\ s \in DOMAIN subs'[id].got
             /\ (fans'[s].dl # fans[s].dl /\ id \in DOMAIN fans'[s].dl
                   /\ (id \in DOMAIN fans[s].dl => fans'[s].dl[id] # fans[s].dl[id])))
            => /\ subs'[id].got[s] = fans[s].seq
               /\ s \in DOMAIN subs[id].got => subs[id].got[s] < fans[s].seq]_vars

\* a subscriber has received the first and then the second notification of
\* the session
C17_Witness ==
  \E id \in DOMAIN subs : \E s \in DOMAIN subs[id].got :
    /\ subs[id].got[s] = 2
    /\ fans[s].pc = "fanout"
    /\ id \in fans[s].regd
    /\ counts.events = MaxEvents - 2

\* C18: the unsubscribe goroutine of a subscriber whose context has ended
\* removes that subscriber's entry from sinks and nothing else: taking the
\* lock changes no table, and the delete leaves every other entry of sinks,
\* cdCaches and every session (its context and cancelFn count) as they were.
C18_UnsubscribeRemovesOnlyItsEntry ==
  [][\A id \in DOMAIN subs :
       /\ (subs[id].pc = "active" /\ subs'[id].pc = "unsub")
            => /\ subs[id].done
               /\ sinks' = sinks /\ cdCaches' = cdCaches /\ sessions' = sessions
       /\ (subs[id].pc = "unsub" /\ subs'[id].pc = "gone")
            => /\ id \in DOMAIN sinks
               /\ DOMAIN sinks' = DOMAIN sinks \ {id}
               /\ \A o \in DOMAIN sinks' : sinks'[o] = sinks[o]
               /\ cdCaches' = cdCaches
               /\ sessions' = sessions]_vars

\* one subscriber's entry was removed and the other subscriber's entry is
\* still in sinks
C18_Witness ==
  \E id \in DOMAIN subs, o \in DOMAIN sinks :
    /\ subs[id].pc = "gone"
    /\ id \notin DOMAIN sinks
    /\ subs[o].pc = "active"
    /\ "A" \in DOMAIN cdCaches

\* C19: under fair scheduling a subscriber whose context is done, also one
\* whose context was done already when Start was called, has its entry removed
\* from sinks eventually, and a removed entry is never in sinks again.
C19_DoneSubscriberEventuallyRemoved ==
  /\ \A id \in 1..MaxSubs :
       (id \in DOMAIN subs /\ subs[id].done)
         ~> (id \in DOMAIN subs /\ subs[id].pc = "gone" /\ id \notin DOMAIN sinks)
  /\ [][\A id \in DOMAIN subs : subs[id].pc = "gone" => id \notin DOMAIN sinks']_vars

\* a subscriber whose context ended has been removed while a later Start call,
\* made with a context that was done already, holds the lock
C19_Witness ==
  \E id \in DOMAIN subs, o \in DOMAIN subs :
    /\ subs[id].pc = "gone"
    /\ id \notin DOMAIN sinks
    /\ subs[o].pc = "locked"
    /\ subs[o].done

\* C16 as stated, where each informer reports the one change (version 1 to
\* 2) of the object of key A once: no subscriber's closure is invoked for that
\* change by more than one session of the key, and a complete fan-out has
\* invoked the closure of every subscriber that was registered when the change
\* was reported and whose context was not done.
C16_ChangeDeliveredOncePerSubscriber ==
  /\ \A id \in DOMAIN subs : \A s \in DOMAIN subs[id].got, t \in DOMAIN subs[id].got :
       sessions[s].key = sessions[t].key => s = t
  /\ \A s \in DOMAIN fans :
       FanOutDone(s) => \A id \in fans[s].regd \cap fans[s].live : id \in DOMAIN fans[s].dl

\* The goroutines that hold the read lock, and whether one holds the write
\* lock.
Readers ==
  Cardinality({w \in Watchers : watchers[w].pc # "idle"})
    + Cardinality({s \in DOMAIN fans : fans[s].pc = "fanout"})

Writers == {id \in DOMAIN subs : subs[id].pc \in {"locked", "unsub"}}

\* The next step of the WatchReferencedResources call in slot w can be taken
\* now, whatever the construction it is about to attempt turns out to be.
CallCanStep(w) ==
  LET me == watchers[w]
  IN CASE me.pc = "insert" -> ENABLED Watch_Insert(w)
       [] me.pc = "loop" /\ me.idx > Len(me.gcs) -> ENABLED Watch_Return(w)
       [] me.pc = "loop" /\ me.idx <= Len(me.gcs) ->
            IF Found(me.gcs[me.idx]) THEN ENABLED Watch_Check(w, "ok")
            ELSE \A o \in Outcomes : ENABLED Watch_Check(w, o)
       [] OTHER -> TRUE

\* C12: the lock is held only by goroutines that are inside a call (readers:
\* WatchReferencedResources and fan-outs; writer: one Start or unsubscribe,
\* never beside a reader), and the next step of each of them can always be
\* taken: none waits for the lock again, for another goroutine or for a
\* cache's initial sync. So, with every lock holder taking its steps, every
\* WatchReferencedResources call and every Start call returns (unless the
\* runtime has stopped the whole process), every fan-out and unsubscribe
\* releases the lock, and a call that waits for the lock finds it free.
C12_CallsReturn ==
  /\ [](/\ lock.r = Readers
        /\ lock.w = (Writers # {})
        /\ Cardinality(Writers) <= 1
        /\ ~(lock.w /\ lock.r > 0)
        /\ \A w \in Watchers : CallCanStep(w)
        /\ \A id \in DOMAIN subs :
             /\ subs[id].pc = "locked" => ENABLED Start_Insert(id)
             /\ subs[id].pc = "unsub" => ENABLED Unsub_Delete(id)
        /\ \A s \in DOMAIN fans :
             fans[s].pc = "fanout"
               => \/ ENABLED Update_RUnlock(s)
                  \/ \E id \in DOMAIN sinks : ENABLED Update_Deliver(s, id))
  /\ \A w \in Watchers : (watchers[w].pc # "idle") ~> (watchers[w].pc = "idle" \/ crashed)
  /\ (\E id \in DOMAIN subs : subs[id].pc = "locked")
       ~> ((\A id \in DOMAIN subs : subs[id].pc # "locked") \/ crashed)
  /\ (lock.w \/ lock.r > 0) ~> (~lock.w /\ lock.r = 0)

\* a WatchReferencedResources call has returned, with the key it recorded
\* still waiting for its cache's initial sync, and both Start calls have
\* returned, one of them with its subscriber removed again
C12_Witness ==
  /\ counts.calls = 0
  /\ \A w \in Watchers : watchers[w].pc = "idle"
  /\ ~crashed
  /\ \E k \in DOMAIN cdCaches :
       /\ ~sessions[cdCaches[k]].synced
       /\ sessions[cdCaches[k]].task = "running"
  /\ \E id \in DOMAIN subs, o \in DOMAIN subs :
       subs[id].pc = "active" /\ subs[o].pc = "gone"

====
